---- MODULE Spec2Model ----
(***************************************************************************)
(* Model of util/DynamicBlacklist.py: the CIDR expander, the download-link *)
(* locator, the (unfinished) range-document parser and the reverse search  *)
(* of an IP in the Azure range document.                                   *)
(*                                                                         *)
(* Strings are modelled by their structure.  An address string is the      *)
(* sequence of its '.'-separated fields; a field that is a decimal number  *)
(* is that number, a field that is not a string of decimal digits is a     *)
(* negative number.  A CIDR string is the record of its address fields and *)
(* of the sequence of the parts that follow each '/'.  A packed 32-bit     *)
(* address is kept as the pair <<high 16 bits, low 16 bits>>.              *)
(***************************************************************************)
EXTENDS Integers, Sequences, FiniteSets, TLC

VARIABLES fn, arg, response, pc, exc, ret

vars == <<fn, arg, response, pc, exc, ret>>

\* ------------------------------------------------------------------------
\* Outcomes of a call: a returned value or a raised exception.

Return(v) == [exc |-> "none", ret |-> v]

Raise(e) == [exc |-> e, ret |-> <<>>]

Range(s) == {s[i] : i \in 1..Len(s)}

RECURSIVE Pow2(_)
Pow2(n) == IF n = 0 THEN 1 ELSE 2 * Pow2(n - 1)

\* ------------------------------------------------------------------------
\* ipaddress.IPv4Address / ipaddress.IPv4Network as the source calls them.

Cidr(fields, parts) == [addr |-> fields, mask |-> parts]

\* An octet is a string of decimal digits denoting at most 255.
ValidOctet(f) == f >= 0 /\ f <= 255

\* IPv4Address(s): four valid octets, else AddressValueError.
IPv4Address(s) ==
    IF Len(s) = 4 /\ \A i \in 1..4 : ValidOctet(s[i])
    THEN Return(<<s[1] * 256 + s[2], s[3] * 256 + s[4]>>)
    ELSE Raise("AddressValueError")

\* x & netmask, for the netmask of prefix length p.
AndNetmask(x, p) ==
    IF p >= 16
    THEN <<x[1], x[2] - (x[2] % Pow2(32 - p))>>
    ELSE <<x[1] - (x[1] % Pow2(16 - p)), 0>>

\* IPv4Network(s), strict: the '/' split, then the address, then the prefix
\* length, then the host bits; each failure is its own exception class.
IPv4Network(s) ==
    IF Len(s.mask) > 1 THEN Raise("AddressValueError")
    ELSE LET a == IPv4Address(s.addr)
             p == IF Len(s.mask) = 0 THEN 32 ELSE s.mask[1]
         IN  IF a.exc # "none" THEN a
             ELSE IF p < 0 \/ p > 32 THEN Raise("NetmaskValueError")
             ELSE IF AndNetmask(a.ret, p) # a.ret THEN Raise("ValueError")
             ELSE Return([network_address |-> a.ret, prefixlen |-> p])

\* str(ip) of a packed address: the dotted quad.
Str(x) == <<x[1] \div 256, x[1] % 256, x[2] \div 256, x[2] % 256>>

\* `for ip in ip_range` without the network and broadcast addresses (hosts()).
NetworkIterHosts(net) ==
    LET n == net.network_address
        p == net.prefixlen
        all == IF p >= 16
               THEN {<<n[1], l>> : l \in n[2]..(n[2] + Pow2(32 - p) - 1)}
               ELSE {<<h, l>> : h \in n[1]..(n[1] + Pow2(16 - p) - 1), l \in 0..65535}
        last == IF p >= 16 THEN <<n[1], n[2] + Pow2(32 - p) - 1>>
                ELSE <<n[1] + Pow2(16 - p) - 1, 65535>>
    IN  IF p >= 31 THEN all ELSE all \ {n, last}

\* `for ip in ip_range`: every packed address from the network address to the
\* broadcast address, both included.
NetworkIter(net) ==
    LET n == net.network_address
        p == net.prefixlen
    IN  IF p >= 16
        THEN {<<n[1], l>> : l \in n[2]..(n[2] + Pow2(32 - p) - 1)}
        ELSE {<<h, l>> : h \in n[1]..(n[1] + Pow2(16 - p) - 1), l \in 0..65535}

\* IPv4Address(ip) in cidr
Contains(net, x) == AndNetmask(x, net.prefixlen) = net.network_address

\* ------------------------------------------------------------------------
\* get_all_ips_from_cidr

get_all_ips_from_cidr(ip_in_cidr_notation) ==
    LET ip_range == IPv4Network(ip_in_cidr_notation)
    IN  IF ip_range.exc # "none" THEN ip_range
        ELSE Return({Str(ip) : ip \in NetworkIter(ip_range.ret)})

\* ------------------------------------------------------------------------
\* get_all_ips_from_cidr_array

\* The loop keeping only the last expansion (ips = get_all_ips_from_cidr(..)).
RECURSIVE ArrayLoopNoUnion(_, _, _)
ArrayLoopNoUnion(arr, i, ips) ==
    IF i > Len(arr) THEN Return(ips)
    ELSE LET r == get_all_ips_from_cidr(arr[i])
         IN  IF r.exc # "none" THEN r
             ELSE ArrayLoopNoUnion(arr, i + 1, r.ret)

\* The loop skipping a block that does not parse.
RECURSIVE ArrayLoopSkip(_, _, _)
ArrayLoopSkip(arr, i, ips) ==
    IF i > Len(arr) THEN Return(ips)
    ELSE LET r == get_all_ips_from_cidr(arr[i])
         IN  IF r.exc # "none" THEN ArrayLoopSkip(arr, i + 1, ips)
             ELSE ArrayLoopSkip(arr, i + 1, ips \cup r.ret)

\* The loop of lines 94-95 from index i on, ips being the set built so far;
\* an exception of get_all_ips_from_cidr leaves the function at once.
RECURSIVE ArrayLoop(_, _, _)
ArrayLoop(arr, i, ips) ==
    IF i > Len(arr) THEN Return(ips)
    ELSE LET r == get_all_ips_from_cidr(arr[i])
         IN  IF r.exc # "none" THEN r
             ELSE ArrayLoop(arr, i + 1, ips \cup r.ret)

get_all_ips_from_cidr_array(array_of_ip_in_cidr_notation) ==
    ArrayLoop(array_of_ip_in_cidr_notation, 1, {})

\* ------------------------------------------------------------------------
\* Inputs of the expander.

MaxHostBits == 2
MaxBlocks == 3

T2_EU == { Cidr(<<185, 56, 64, 0>>, <<24>>), Cidr(<<185, 56, 64, 0>>, <<22>>),
           Cidr(<<185, 56, 65, 0>>, <<24>>), Cidr(<<185, 56, 66, 0>>, <<24>>),
           Cidr(<<185, 56, 67, 0>>, <<24>>) }

\* The blocks the module's own driver expands (lines 118-119), and a sibling.
MainBlocks == { Cidr(<<185, 56, 64, 0>>, <<24>>), Cidr(<<185, 56, 64, 0>>, <<22>>),
                Cidr(<<185, 56, 65, 0>>, <<24>>) }

\* The last block of 10.0.0.0/16 for every number of host bits up to the bound.
SmallBlocks == {Cidr(<<10, 0, 255, 256 - Pow2(h)>>, <<32 - h>>) : h \in 0..MaxHostBits}

NotACidr == Cidr(<<-1>>, <<>>)              \* "not-a-cidr"
IPv6Prefix == Cidr(<<-1>>, <<32>>)          \* "2001:db8::/32"
BadPrefixLen == Cidr(<<10, 0, 0, 0>>, <<33>>) \* "10.0.0.0/33"
HostBitsSet == Cidr(<<10, 0, 0, 1>>, <<8>>)   \* "10.0.0.1/8"

InvalidBlocks == {NotACidr, IPv6Prefix, BadPrefixLen, HostBitsSet}

ExpanderBlocks == MainBlocks \cup SmallBlocks \cup InvalidBlocks

SeqsUpTo(S, n) == UNION {[1..k -> S] : k \in 0..n}

NoResponse == [error |-> "none", status_code |-> 0, content |-> <<>>]

InitExpander ==
    /\ \/ fn = "get_all_ips_from_cidr" /\ arg \in ExpanderBlocks \cup T2_EU
       \/ fn = "get_all_ips_from_cidr_array" /\ arg \in SeqsUpTo(ExpanderBlocks, MaxBlocks)
    /\ response = NoResponse
    /\ pc = "call"
    /\ exc = "none"
    /\ ret = <<>>

Finish(r) ==
    /\ pc' = "done"
    /\ exc' = r.exc
    /\ ret' = r.ret
    /\ UNCHANGED <<fn, arg, response>>

Expand ==
    /\ pc = "call"
    /\ fn = "get_all_ips_from_cidr"
    /\ Finish(get_all_ips_from_cidr(arg))

ExpandAll ==
    /\ pc = "call"
    /\ fn = "get_all_ips_from_cidr_array"
    /\ Finish(get_all_ips_from_cidr_array(arg))

NextExpander == Expand \/ ExpandAll

SpecExpander == InitExpander /\ [][NextExpander]_vars

\* ------------------------------------------------------------------------
\* Properties of the expander.

PackedLE(x, y) == x[1] < y[1] \/ (x[1] = y[1] /\ x[2] <= y[2])

IsValidCidr(s) == IPv4Network(s).exc = "none"

\* network + 2^(32-p) - 1
LastOf(net) ==
    IF net.prefixlen >= 16
    THEN <<net.network_address[1], net.network_address[2] + Pow2(32 - net.prefixlen) - 1>>
    ELSE <<net.network_address[1] + Pow2(16 - net.prefixlen) - 1, 65535>>

Reordered(s) == {[i \in 1..Len(s) |-> s[f[i]]] : f \in Permutations(1..Len(s))}

\* C5: for a valid block of prefix length p, get_all_ips_from_cidr returns
\* exactly 2^(32-p) distinct address strings, each within
\* [network, network + 2^(32-p) - 1]; 185.56.64.0/24 gives 185.56.64.0-255.
C5_ExpandExact ==
    (pc = "done" /\ fn = "get_all_ips_from_cidr" /\ IsValidCidr(arg)) =>
        LET net == IPv4Network(arg).ret
        IN  /\ exc = "none"
            /\ Cardinality(ret) = Pow2(32 - net.prefixlen)
            /\ \A a \in ret :
                  /\ IPv4Address(a).exc = "none"
                  /\ PackedLE(net.network_address, IPv4Address(a).ret)
                  /\ PackedLE(IPv4Address(a).ret, LastOf(net))
            /\ (arg = Cidr(<<185, 56, 64, 0>>, <<24>>)
                  => ret = {<<185, 56, 64, d>> : d \in 0..255})

C5_Witness ==
    /\ pc = "done" /\ fn = "get_all_ips_from_cidr"
    /\ arg = Cidr(<<185, 56, 64, 0>>, <<24>>)
    /\ exc = "none"
    /\ <<185, 56, 64, 0>> \in ret /\ <<185, 56, 64, 255>> \in ret

\* C6: for valid blocks, get_all_ips_from_cidr_array returns the union of the
\* expansions of the blocks, whatever their order; one block, or the same block
\* twice, gives that block's expansion; [/24, /22] gives 1024 addresses.
C6_ExpandAllIsUnion ==
    (pc = "done" /\ fn = "get_all_ips_from_cidr_array"
        /\ \A i \in 1..Len(arg) : IsValidCidr(arg[i])) =>
        /\ exc = "none"
        /\ ret = UNION {get_all_ips_from_cidr(b).ret : b \in Range(arg)}
        /\ \A s \in Reordered(arg) : get_all_ips_from_cidr_array(s) = Return(ret)
        /\ (Len(arg) >= 1 /\ Cardinality(Range(arg)) = 1
              => ret = get_all_ips_from_cidr(arg[1]).ret)
        /\ (arg = <<Cidr(<<185, 56, 64, 0>>, <<24>>), Cidr(<<185, 56, 64, 0>>, <<22>>)>>
              => Cardinality(ret) = 1024)

C6_Witness ==
    /\ pc = "done" /\ fn = "get_all_ips_from_cidr_array"
    /\ arg = <<Cidr(<<185, 56, 64, 0>>, <<24>>), Cidr(<<185, 56, 64, 0>>, <<22>>)>>
    /\ exc = "none"
    /\ Cardinality(ret) = 1024

HasInvalid(arr) == \E i \in 1..Len(arr) : ~IsValidCidr(arr[i])

FirstInvalid(arr) ==
    CHOOSE i \in 1..Len(arr) :
        ~IsValidCidr(arr[i]) /\ \A j \in 1..(i - 1) : IsValidCidr(arr[j])

\* C7: if any block of the array is invalid, get_all_ips_from_cidr_array raises
\* the parse error of the first invalid block and returns no set.
C7_ExpandAllAllOrNothing ==
    (pc = "done" /\ fn = "get_all_ips_from_cidr_array" /\ HasInvalid(arg)) =>
        /\ exc \in {"AddressValueError", "NetmaskValueError", "ValueError"}
        /\ exc = IPv4Network(arg[FirstInvalid(arg)]).exc
        /\ ret = <<>>

C7_Witness ==
    /\ pc = "done" /\ fn = "get_all_ips_from_cidr_array"
    /\ Len(arg) = 3
    /\ IsValidCidr(arg[1]) /\ ~IsValidCidr(arg[2]) /\ IsValidCidr(arg[3])
    /\ exc = "NetmaskValueError"

\* ------------------------------------------------------------------------
\* The HTTP exchange: requests.get(url) followed by raise_for_status().
\* A response is what the network gives for the URL: a transport error, or a
\* status code and a body.  ConnectionError and HTTPError both derive from
\* requests.exceptions.RequestException.

Get(resp) ==
    IF resp.error # "none" THEN Raise(resp.error)
    ELSE IF resp.status_code >= 400 THEN Raise("HTTPError")
    ELSE Return(resp.content)

ConnectionFailed == [error |-> "ConnectionError", status_code |-> 0, content |-> <<>>]

Responses(bodies) ==
    {ConnectionFailed}
        \cup {[error |-> "none", status_code |-> c, content |-> b] : c \in {200, 404}, b \in bodies}

\* ------------------------------------------------------------------------
\* get_azure_ip_ranges_download.  A page is a sequence of tokens: the literal
\* head of the pattern, the literal ".json", the double quote, any other
\* character.

AZURE_GET_PUBLIC_CLOUD_URL == "https://www.microsoft.com/en-us/download/confirmation.aspx?id=56519"

UrlHead == "https://download.microsoft.com/download"
DotJson == ".json"
Quote == "\""
Other == "x"

PageTokens == {UrlHead, DotJson, Quote, Other}

\* str(response.content): the repr of the bytes, b'...'.
StrBytes(content) == <<"b'">> \o content \o <<"'">>

\* Where [^"]* must stop: the first quote after position i, or the end.
NextQuote(s, i) ==
    IF \E k \in (i + 1)..Len(s) : s[k] = Quote
    THEN CHOOSE k \in (i + 1)..Len(s) : s[k] = Quote /\ \A m \in (i + 1)..(k - 1) : s[m] # Quote
    ELSE Len(s) + 1

\* The end of the match of MICROSOFT_DOWNLOAD_REGEX that starts at i (0: none):
\* [^"]* is greedy, so the match ends at the last ".json" before the next quote.
MatchEnd(s, i) ==
    LET ends == {j \in (i + 1)..(NextQuote(s, i) - 1) : s[j] = DotJson}
    IN  IF s[i] # UrlHead \/ ends = {} THEN 0
        ELSE CHOOSE j \in ends : \A k \in ends : k <= j

\* re.findall(MICROSOFT_DOWNLOAD_REGEX, s) scanning from position i: the
\* non-overlapping matches, leftmost first.
RECURSIVE FindAllFrom(_, _)
FindAllFrom(s, i) ==
    IF i > Len(s) THEN <<>>
    ELSE IF MatchEnd(s, i) = 0 THEN FindAllFrom(s, i + 1)
    ELSE <<SubSeq(s, i, MatchEnd(s, i))>> \o FindAllFrom(s, MatchEnd(s, i) + 1)

findall(s) == FindAllFrom(s, 1)

\* list(set(files)): the distinct elements in an order the set chooses.
ListOfSet(files) ==
    {l \in [1..Cardinality(Range(files)) -> Range(files)] : Range(l) = Range(files)}

\* The function returning the finds as they are (without line 62).
DownloadNoDedup(resp) ==
    LET r == Get(resp)
    IN  IF r.exc # "none" THEN {r}
        ELSE {Return(findall(StrBytes(r.ret)))}

\* The set of outcomes of get_azure_ip_ranges_download for a response.  The
\* result of re.findall is a list, never None: the test of line 59 is false
\* and the raise of line 60 is not reached.  The except clause of lines 65-68
\* re-raises what it caught.
get_azure_ip_ranges_download(resp) ==
    LET r == Get(resp)
    IN  IF r.exc # "none" THEN {r}
        ELSE LET files == findall(StrBytes(r.ret))
                 filesIsNone == FALSE
             IN  IF filesIsNone THEN {Raise("ScrapeError")}
                 ELSE {Return(l) : l \in ListOfSet(files)}

MaxPageLen == 6

InitLocator ==
    /\ fn = "get_azure_ip_ranges_download"
    /\ arg = AZURE_GET_PUBLIC_CLOUD_URL
    /\ response \in Responses(SeqsUpTo(PageTokens, MaxPageLen))
    /\ pc = "call"
    /\ exc = "none"
    /\ ret = <<>>

Download ==
    /\ pc = "call"
    /\ fn = "get_azure_ip_ranges_download"
    /\ \E r \in get_azure_ip_ranges_download(response) : Finish(r)

NextLocator == Download

SpecLocator == InitLocator /\ [][NextLocator]_vars

\* ------------------------------------------------------------------------
\* Properties of the locator.

Fetched == response.error = "none" /\ response.status_code < 400

\* C2: a page fetched successfully that holds no match of the pattern makes
\* get_azure_ip_ranges_download raise ScrapeError; no list is returned.
C2_NoMatchRaisesScrapeError ==
    (pc = "done" /\ fn = "get_azure_ip_ranges_download" /\ Fetched
        /\ findall(StrBytes(response.content)) = <<>>) =>
        exc = "ScrapeError"

C9_Witness ==
    /\ pc = "done" /\ fn = "get_azure_ip_ranges_download"
    /\ response.content = <<UrlHead, DotJson, Quote, UrlHead, DotJson, Quote>>
    /\ Fetched
    /\ ret = <<<<UrlHead, DotJson>>>>

MaxCategories == 2
MaxPrefixes == 2

DocPrefixes ==
    { Cidr(<<10, 0, 0, 0>>, <<8>>), Cidr(<<10, 0, 0, 0>>, <<16>>),
      Cidr(<<192, 168, 0, 0>>, <<16>>) } \cup InvalidBlocks

Category(i, prefixes) == [id |-> i, properties |-> [addressPrefixes |-> prefixes]]

Documents ==
    UNION { {[values |-> [i \in 1..n |-> Category(i, ps[i])]] :
                ps \in [1..n -> SeqsUpTo(DocPrefixes, MaxPrefixes)]} :
            n \in 0..MaxCategories }

\* ------------------------------------------------------------------------
\* parse_azure_ip_ranges: the download, the status check, and then the end of
\* the function body: the value of the call is None.

None == "None"

parse_azure_ip_ranges(resp) ==
    LET r == Get(resp)
    IN  IF r.exc # "none" THEN r
        ELSE Return(None)

InitParser ==
    /\ fn = "parse_azure_ip_ranges"
    /\ arg = <<UrlHead, DotJson>>
    /\ response \in Responses(Documents)
    /\ pc = "call"
    /\ exc = "none"
    /\ ret = <<>>

Parse ==
    /\ pc = "call"
    /\ fn = "parse_azure_ip_ranges"
    /\ Finish(parse_azure_ip_ranges(response))

NextParser == Parse

SpecParser == InitParser /\ [][NextParser]_vars

\* The prefixes of a list that are valid IPv4 CIDR, in their order.
RECURSIVE ValidOnly(_)
ValidOnly(prefixes) ==
    IF prefixes = <<>> THEN <<>>
    ELSE IF IsValidCidr(prefixes[1]) THEN <<prefixes[1]>> \o ValidOnly(Tail(prefixes))
    ELSE ValidOnly(Tail(prefixes))

\* C10: a document fetched successfully is parsed into one category per source
\* entry, each holding the valid IPv4 CIDR prefixes of its entry; an invalid
\* prefix is skipped and the parse still succeeds.
C10_ParseKeepsValidPrefixes ==
    (pc = "done" /\ fn = "parse_azure_ip_ranges" /\ Fetched) =>
        /\ exc = "none"
        /\ ret # None
        /\ Len(ret.values) = Len(response.content.values)
        /\ \A i \in 1..Len(ret.values) :
              ret.values[i].properties.addressPrefixes
                  = ValidOnly(response.content.values[i].properties.addressPrefixes)

\* ------------------------------------------------------------------------
\* reverse_search_ip_in_azure

\* Lines 109-111, the body of the try: both constructors may raise.
TryBody(ip, cat, str_cidr, search) ==
    LET cidr == IPv4Network(str_cidr)
        addr == IPv4Address(ip)
    IN  IF cidr.exc # "none" THEN cidr
        ELSE IF addr.exc # "none" THEN addr
        ELSE IF Contains(cidr.ret, addr.ret) THEN Return(Append(search, cat))
        ELSE Return(search)

\* Lines 108-113: `except ipaddress.AddressValueError: pass` catches that class
\* only; NetmaskValueError and ValueError are not subclasses of it.
TryExcept(ip, cat, str_cidr, search) ==
    LET r == TryBody(ip, cat, str_cidr, search)
    IN  IF r.exc = "AddressValueError" THEN Return(search) ELSE r

\* Lines 107-113: the loop over the prefixes of cat, from index j on.
RECURSIVE RangesLoop(_, _, _, _)
RangesLoop(ip, cat, j, search) ==
    LET ranges == cat.properties.addressPrefixes
    IN  IF j > Len(ranges) THEN Return(search)
        ELSE LET r == TryExcept(ip, cat, ranges[j], search)
             IN  IF r.exc # "none" THEN r
                 ELSE RangesLoop(ip, cat, j + 1, r.ret)

\* Lines 105-113: the loop over the categories, from index i on.
RECURSIVE CategoriesLoop(_, _, _, _)
CategoriesLoop(ip, categories, i, search) ==
    IF i > Len(categories) THEN Return(search)
    ELSE LET r == RangesLoop(ip, categories[i], 1, search)
         IN  IF r.exc # "none" THEN r
             ELSE CategoriesLoop(ip, categories, i + 1, r.ret)

reverse_search_ip_in_azure(ip, azure_info_json) ==
    CategoriesLoop(ip, azure_info_json.values, 1, <<>>)

\* "10.0.0.5", "192.168.1.1", "172.16.0.1", "not-an-ip", "10.0.0"
SearchIps == { <<10, 0, 0, 5>>, <<192, 168, 1, 1>>, <<172, 16, 0, 1>>, <<-1>>, <<10, 0, 0>> }

InitResolver ==
    /\ fn = "reverse_search_ip_in_azure"
    /\ arg \in [ip : SearchIps, azure_info_json : Documents]
    /\ response = NoResponse
    /\ pc = "call"
    /\ exc = "none"
    /\ ret = <<>>

ReverseSearch ==
    /\ pc = "call"
    /\ fn = "reverse_search_ip_in_azure"
    /\ Finish(reverse_search_ip_in_azure(arg.ip, arg.azure_info_json))

NextResolver == ReverseSearch

SpecResolver == InitResolver /\ [][NextResolver]_vars

\* ------------------------------------------------------------------------
\* Properties of the reverse search.

Searched == pc = "done" /\ fn = "reverse_search_ip_in_azure"

IsValidIp(ip) == IPv4Address(ip).exc = "none"

AllPrefixes(doc) ==
    UNION {Range(doc.values[i].properties.addressPrefixes) : i \in 1..Len(doc.values)}

\* The category has a block that is a valid IPv4 network containing ip.
Matches(ip, cat) ==
    \E b \in Range(cat.properties.addressPrefixes) :
        IsValidCidr(b) /\ Contains(IPv4Network(b).ret, IPv4Address(ip).ret)

\* C1: for a valid ip, no category occurs twice in the returned list.
C1_CategoryAtMostOnce ==
    (Searched /\ IsValidIp(arg.ip) /\ exc = "none") =>
        \A i, j \in 1..Len(ret) : ret[i] = ret[j] => i = j

\* C3: for an ip that is not a valid IPv4 address the search raises the
\* address error, whatever the document; it returns no list.
C3_InvalidIpRaises ==
    (Searched /\ ~IsValidIp(arg.ip)) => exc = "AddressValueError"

\* C4: for a valid ip and a document with blocks that are not valid IPv4 CIDR,
\* the search does not raise, and every category with a valid block containing
\* ip is reported.
C4_InvalidBlocksSkipped ==
    (Searched /\ IsValidIp(arg.ip)
        /\ \E b \in AllPrefixes(arg.azure_info_json) : ~IsValidCidr(b)) =>
        /\ exc = "none"
        /\ \A c \in Range(arg.azure_info_json.values) :
              Matches(arg.ip, c) => c \in Range(ret)

\* C8: for a valid ip, the categories returned are exactly the categories
\* with a block whose network contains ip.
C8_ExactlyMatchingCategories ==
    (Searched /\ IsValidIp(arg.ip)) =>
        /\ exc = "none"
        /\ Range(ret) = {c \in Range(arg.azure_info_json.values) : Matches(arg.ip, c)}

\* When the search returns for a valid ip, the categories of the list are
\* exactly the matching ones.
ReturnedSetExact ==
    (Searched /\ IsValidIp(arg.ip) /\ exc = "none") =>
        Range(ret) = {c \in Range(arg.azure_info_json.values) : Matches(arg.ip, c)}

====
